---------------------------- MODULE Spec2Model ----------------------------
(***************************************************************************)
(* A model of etl.py: the OMDb metadata fetcher with its on-disk cache,    *)
(* the relational-store operations (upsert_movie, get_or_create_*,         *)
(* link_*, load_ratings) and the pipeline driver main().                   *)
(*                                                                         *)
(* Python values:                                                          *)
(*   str          a sequence of one-character strings                      *)
(*   int          an integer                                               *)
(*   x or None    the set {x}, or {} for None                              *)
(*   float        an integer number of tenths (3.0 is 30, 4.5 is 45)       *)
(***************************************************************************)
EXTENDS Integers, Sequences, FiniteSets, TLC

VARIABLES
    \* ---- the cache directory and one activation of omdb_lookup
    cache,      \* file name -> record stored in the file (CACHE_DIR/*.json)
    fpc,        \* position inside omdb_lookup
    ftitle,     \* argument title
    fyear,      \* argument year
    attempt,    \* loop variable of the retry loop
    waits,      \* the time.sleep() arguments of this activation, in order
    fnet,       \* requests.get() calls made by this activation
    fret,       \* the value returned
    \* ---- history of the fetcher (not program state)
    apiGot,     \* (title, year) -> the structured response that query received from the API
    fprior,     \* the query of this activation had received one before the activation began
    fhadEntry,  \* the cache file of this activation's key existed when it began
    gaveUp,     \* the file names whose lookup ended in the failure record
    calls,      \* omdb_lookup activations so far
    run,        \* number of the process run
    \* ---- the store
    db,         \* tables as seen through the open connection
    committed,  \* tables as committed
    last,       \* history: the last store operation, its arguments and outcome
    firstId,    \* history of SpecDims: <<table, name>> -> the id the first
                \* get-or-create call for the name returned
    nops,       \* store operations so far
    \* ---- main()
    pc,         \* position inside main
    movies_df,  \* the catalog input
    ratings_df, \* the ratings input
    ri,         \* index of the next rating row
    mi,         \* index of the current movie row
    loc,        \* locals of the loop body of main
    trace,      \* history: the steps main has taken in this run
    ncommits,   \* history: conn.commit() calls of this run
    runStart    \* history: the committed tables when this run began

fvars == <<cache, fpc, ftitle, fyear, attempt, waits, fnet, fret,
           apiGot, fprior, fhadEntry, gaveUp, calls, run>>
svars == <<db, committed, last, firstId, nops>>
mvars == <<pc, movies_df, ratings_df, ri, mi, loc, trace, ncommits, runStart>>
vars == <<fvars, svars, mvars>>

(***************************************************************************)
(* Python values                                                           *)
(***************************************************************************)
None == {}
Some(x) == {x}
The(o) == CHOOSE x \in o : TRUE

\* bool(year) for an int or None: None and 0 are falsy
TruthyInt(o) == o # None /\ The(o) # 0
\* bool(s) for a str or None: None and "" are falsy
TruthyStr(o) == o # None /\ The(o) # <<>>

DigitChar(d) == CASE d = 0 -> "0" [] d = 1 -> "1" [] d = 2 -> "2" [] d = 3 -> "3"
                  [] d = 4 -> "4" [] d = 5 -> "5" [] d = 6 -> "6" [] d = 7 -> "7"
                  [] d = 8 -> "8" [] d = 9 -> "9"

RECURSIVE NatStr(_)
NatStr(n) == IF n < 10 THEN <<DigitChar(n)>>
             ELSE NatStr(n \div 10) \o <<DigitChar(n % 10)>>

\* str(n) for an int
PyStr(n) == IF n < 0 THEN <<"-">> \o NatStr(0 - n) ELSE NatStr(n)

\* s.replace(a, b) for one-character a and b
Replace(s, a, b) == [i \in 1..Len(s) |-> IF s[i] = a THEN b ELSE s[i]]

RECURSIVE Pow2(_)
Pow2(n) == IF n = 0 THEN 1 ELSE 2 * Pow2(n - 1)

(***************************************************************************)
(* String functions of Python                                              *)
(***************************************************************************)
IsSpace(c) == c \in {" ", "\t", "\n"}

IsDigit(c) == c \in {"0", "1", "2", "3", "4", "5", "6", "7", "8", "9"}

DigitVal(c) == CASE c = "0" -> 0 [] c = "1" -> 1 [] c = "2" -> 2 [] c = "3" -> 3
                 [] c = "4" -> 4 [] c = "5" -> 5 [] c = "6" -> 6 [] c = "7" -> 7
                 [] c = "8" -> 8 [] c = "9" -> 9

\* s.endswith(c) for a one-character c
EndsWith(s, c) == Len(s) > 0 /\ s[Len(s)] = c

RECURSIVE LStrip(_)
LStrip(s) == IF s # <<>> /\ IsSpace(s[1]) THEN LStrip(Tail(s)) ELSE s

RECURSIVE RStrip(_)
RStrip(s) == IF s # <<>> /\ IsSpace(s[Len(s)])
             THEN RStrip(SubSeq(s, 1, Len(s) - 1)) ELSE s

\* s.strip()
Strip(s) == RStrip(LStrip(s))

\* s.rstrip(c) for a one-character c
RECURSIVE RStripChar(_, _)
RStripChar(s, c) == IF s # <<>> /\ s[Len(s)] = c
                    THEN RStripChar(SubSeq(s, 1, Len(s) - 1), c) ELSE s

\* s.rsplit(c, 1) for a one-character c
RSplit1(s, c) ==
    LET at == {i \in 1..Len(s) : s[i] = c}
    IN  IF at = {} THEN <<s>>
        ELSE LET k == CHOOSE i \in at : \A j \in at : j <= i
             IN  <<SubSeq(s, 1, k - 1), SubSeq(s, k + 1, Len(s))>>

\* s.split(c) for a one-character c
RECURSIVE Split(_, _)
Split(s, c) ==
    LET at == {i \in 1..Len(s) : s[i] = c}
    IN  IF at = {} THEN <<s>>
        ELSE LET k == CHOOSE i \in at : \A j \in at : i <= j
             IN  <<SubSeq(s, 1, k - 1)>> \o Split(SubSeq(s, k + 1, Len(s)), c)

\* s.split(): the maximal runs of non-space characters
RECURSIVE SplitWS(_)
SplitWS(s) ==
    LET t == LStrip(s)
        sp == {i \in 1..Len(t) : IsSpace(t[i])}
    IN  IF t = <<>> THEN <<>>
        ELSE IF sp = {} THEN <<t>>
        ELSE LET k == CHOOSE i \in sp : \A j \in sp : i <= j
             IN  <<SubSeq(t, 1, k - 1)>> \o SplitWS(SubSeq(t, k + 1, Len(t)))

\* sub in s
Contains(s, sub) ==
    \E i \in 1..(Len(s) - Len(sub) + 1) : SubSeq(s, i, i + Len(sub) - 1) = sub

RECURSIVE DigitsValue(_)
DigitsValue(s) == IF s = <<>> THEN 0
                  ELSE 10 * DigitsValue(SubSeq(s, 1, Len(s) - 1)) + DigitVal(s[Len(s)])

\* int(s): {n}, or None when int raises ValueError. int accepts surrounding
\* white space, one sign, and digits with single underscores between them.
PyInt(s) ==
    LET t == Strip(s)
        signed == t # <<>> /\ t[1] \in {"+", "-"}
        body == IF signed THEN Tail(t) ELSE t
        wellFormed ==
            /\ body # <<>>
            /\ \A i \in 1..Len(body) : IsDigit(body[i]) \/ body[i] = "_"
            /\ IsDigit(body[1])
            /\ IsDigit(body[Len(body)])
            /\ \A i \in 1..(Len(body) - 1) : ~(body[i] = "_" /\ body[i + 1] = "_")
        digits == SelectSeq(body, IsDigit)
    IN  IF ~wellFormed THEN None
        ELSE IF signed /\ t[1] = "-" THEN Some(0 - DigitsValue(digits))
        ELSE Some(DigitsValue(digits))

\* [x.strip() for x in parts if x.strip()]
RECURSIVE StripNonEmpty(_)
StripNonEmpty(parts) ==
    IF parts = <<>> THEN <<>>
    ELSE (IF Strip(Head(parts)) # <<>> THEN <<Strip(Head(parts))>> ELSE <<>>)
         \o StripNonEmpty(Tail(parts))

\* list(dict.fromkeys(xs)): the first occurrences, in order
RECURSIVE Dedupe(_)
Dedupe(xs) ==
    IF xs = <<>> THEN <<>>
    ELSE LET init == SubSeq(xs, 1, Len(xs) - 1)
             x == xs[Len(xs)]
         IN  IF \E i \in 1..Len(init) : init[i] = x THEN Dedupe(init)
             ELSE Append(Dedupe(init), x)

(***************************************************************************)
(* API records. A record is the dict r.json() returned; a key the dict     *)
(* lacks reads as None (omdb.get).                                         *)
(***************************************************************************)
STrue == <<"T", "r", "u", "e">>
SFalse == <<"F", "a", "l", "s", "e">>

NoRecord == [Response |-> None, Error |-> None, imdbID |-> None, Runtime |-> None,
             Plot |-> None, BoxOffice |-> None, Genre |-> None, Director |-> None]

\* {"Response": "False", "Error": "Failed after retries"}
FailureRecord == [NoRecord EXCEPT !.Response = Some(SFalse),
                                  !.Error = Some(<<"r", "e", "t", "r", "i", "e", "s">>)]

\* what the API answers for a title it does not know
NotFoundRecord == [NoRecord EXCEPT !.Response = Some(SFalse),
                                   !.Error = Some(<<"n", "o", "t", " ", "f", "o", "u", "n", "d">>)]

FoundRecord1 == [NoRecord EXCEPT !.Response = Some(STrue),
                                 !.imdbID = Some(<<"t", "t", "1">>),
                                 !.Runtime = Some(<<"9", "0", " ", "m", "i", "n">>),
                                 !.Plot = Some(<<"p">>),
                                 !.BoxOffice = Some(<<"$", "1">>),
                                 !.Genre = Some(<<"C", ",", " ", "A">>),
                                 !.Director = Some(<<"X", ",", " ", "Y">>)]

FoundRecord2 == [NoRecord EXCEPT !.Response = Some(STrue),
                                 !.imdbID = Some(<<"t", "t", "2">>),
                                 !.Runtime = Some(<<"N", "/", "A">>),
                                 !.Director = Some(<<"N", "/", "A">>)]

\* the structured responses the API gives in the model
Payloads == {FoundRecord1, FoundRecord2, NotFoundRecord}

(***************************************************************************)
(* omdb_lookup                                                             *)
(***************************************************************************)
\* what one pass of the try block can raise: requests.get a transport error
\* (a subclass of IOError), r.json() a parse error (a subclass of ValueError)
Failures == {"RequestException", "JSONDecodeError"}

CaughtOnlyTransport(e) == e = "RequestException"

\* except Exception as e: both are subclasses of Exception
Caught(e) == e \in {"RequestException", "JSONDecodeError"}

MaxAttempts == 4

SEP == <<"_", "_">>
DotJson == <<".", "j", "s", "o", "n">>

\* safe_name = f"{title}__{year}" if year else title
SafeName(title, year) ==
    IF TruthyInt(year) THEN title \o SEP \o PyStr(The(year)) ELSE title

\* fname = CACHE_DIR / (safe_name.replace("/", "_") + ".json")
CacheKey(title, year) == Replace(SafeName(title, year), "/", "_") \o DotJson

\* fname.exists()
CacheExists(c, title, year) == CacheKey(title, year) \in DOMAIN c

\* json.loads(fname.read_text())
CacheRead(c, title, year) == c[CacheKey(title, year)]

CacheWriteNothing(c, title, year, data) == c

CacheWriteOnlyFound(c, title, year, data) ==
    IF data.Response = Some(STrue)
    THEN [k \in DOMAIN c \cup {CacheKey(title, year)} |->
             IF k = CacheKey(title, year) THEN data ELSE c[k]]
    ELSE c

\* fname.write_text(json.dumps(data))
CacheWrite(c, title, year, data) ==
    [k \in DOMAIN c \cup {CacheKey(title, year)} |->
        IF k = CacheKey(title, year) THEN data ELSE c[k]]

BackoffLinear(a) == a + 1

\* wait = 2 ** attempt
Backoff(a) == Pow2(a)

SleepUnlessLast(ws, a) ==
    IF a + 1 < MaxAttempts THEN Append(ws, Backoff(a)) ELSE ws

\* time.sleep(wait) in the except clause of attempt a: the sleeps so far, ws,
\* and this one
SleepAfterFailure(ws, a) == Append(ws, Backoff(a))

\* the call: the arguments are bound and the body starts
LookupEnter(title, year) ==
    /\ ftitle' = title
    /\ fyear' = year
    /\ fpc' = "check"
    /\ attempt' = 0
    /\ waits' = <<>>
    /\ fnet' = 0
    /\ fret' = NoRecord
    /\ fprior' = (<<title, year>> \in DOMAIN apiGot)
    /\ fhadEntry' = CacheExists(cache, title, year)
    /\ UNCHANGED <<cache, apiGot, gaveUp>>

\* if fname.exists(): return json.loads(fname.read_text())
LookupCheck ==
    /\ fpc = "check"
    /\ IF CacheExists(cache, ftitle, fyear)
       THEN /\ fret' = CacheRead(cache, ftitle, fyear)
            /\ fpc' = "done"
       ELSE /\ fpc' = "attempt"
            /\ fret' = fret
    /\ UNCHANGED <<cache, ftitle, fyear, attempt, waits, fnet, apiGot, fprior,
                   fhadEntry, gaveUp, calls, run>>
    /\ UNCHANGED <<svars, mvars>>

\* one pass of the try block that ends in return data
LookupAttemptOk ==
    /\ fpc = "attempt"
    /\ attempt < MaxAttempts
    /\ \E data \in Payloads :
          /\ cache' = CacheWrite(cache, ftitle, fyear, data)
          /\ fret' = data
          /\ apiGot' = [q \in DOMAIN apiGot \cup {<<ftitle, fyear>>} |->
                           IF q = <<ftitle, fyear>> THEN data ELSE apiGot[q]]
    /\ fnet' = fnet + 1
    /\ fpc' = "done"
    /\ UNCHANGED <<ftitle, fyear, attempt, waits, fprior, fhadEntry, gaveUp, calls, run>>
    /\ UNCHANGED <<svars, mvars>>

\* one pass of the try block that raises (requests.get: a transport failure;
\* r.json(): a parse failure): control moves to the except clause
LookupAttemptFail ==
    /\ fpc = "attempt"
    /\ attempt < MaxAttempts
    /\ \E e \in Failures : fpc' = IF Caught(e) THEN "except" ELSE "raised"
    /\ fnet' = fnet + 1
    /\ UNCHANGED <<cache, ftitle, fyear, attempt, waits, fret, apiGot, fprior,
                   fhadEntry, gaveUp, calls, run>>
    /\ UNCHANGED <<svars, mvars>>

\* except Exception: wait = 2 ** attempt; time.sleep(wait); then the next pass
LookupSleep ==
    /\ fpc = "except"
    /\ waits' = SleepAfterFailure(waits, attempt)
    /\ attempt' = attempt + 1
    /\ fpc' = IF attempt + 1 < MaxAttempts THEN "attempt" ELSE "exhausted"
    /\ UNCHANGED <<cache, ftitle, fyear, fnet, fret, apiGot, fprior, fhadEntry,
                   gaveUp, calls, run>>
    /\ UNCHANGED <<svars, mvars>>

\* return {"Response": "False", "Error": "Failed after retries"}
LookupGiveUp ==
    /\ fpc = "exhausted"
    /\ fret' = FailureRecord
    /\ fpc' = "done"
    /\ gaveUp' = gaveUp \cup {CacheKey(ftitle, fyear)}
    /\ UNCHANGED <<cache, ftitle, fyear, attempt, waits, fnet, apiGot, fprior,
                   fhadEntry, calls, run>>
    /\ UNCHANGED <<svars, mvars>>

(***************************************************************************)
(* The store. A table is the sequence of its rows in insertion order; the  *)
(* id of a row of movies, genres or directors is its position (ids are     *)
(* generated 1, 2, ... and no row is ever deleted).                        *)
(***************************************************************************)
SetMin(S) == CHOOSE x \in S : \A y \in S : x <= y

\* the orders in which the engine may yield the rows that match
\* "movie_id = :mid OR title = :title": by rowid (a table scan), or one OR
\* term after the other (one index lookup per term)
ScanOrders == {"rowid", "identity", "title"}

MatchingMoviesByIdOnly(movies, mid, title) ==
    {i \in 1..Len(movies) : movies[i].movie_id = mid}

\* SELECT id FROM movies WHERE movie_id = :mid OR title = :title
MatchingMovies(movies, mid, title) ==
    {i \in 1..Len(movies) : movies[i].movie_id = mid \/ movies[i].title = title}

\* .fetchone(): the first row the engine yields, None when there is none
FetchOneMovie(d, mid, title) ==
    LET M == MatchingMovies(d.movies, mid, title)
        byId == {i \in M : d.movies[i].movie_id = mid}
        byTitle == {i \in M : d.movies[i].title = title}
    IN  IF M = {} THEN None
        ELSE IF d.scan = "identity" /\ byId # {} THEN Some(SetMin(byId))
        ELSE IF d.scan = "title" /\ byTitle # {} THEN Some(SetMin(byTitle))
        ELSE Some(SetMin(M))

upsert_movie_insert_only(d, movie_unique_id, title, year, runtime, plot, box_office) ==
    [db |-> [d EXCEPT !.movies = Append(@,
                [movie_id |-> movie_unique_id, title |-> title, year |-> year,
                 runtime_minutes |-> runtime, plot |-> plot,
                 box_office |-> box_office])],
     ret |-> Len(d.movies) + 1]

upsert_movie_sets_identity(d, movie_unique_id, title, year, runtime, plot, box_office) ==
    LET r == FetchOneMovie(d, movie_unique_id, title)
        row == [movie_id |-> movie_unique_id, title |-> title, year |-> year,
                runtime_minutes |-> runtime, plot |-> plot, box_office |-> box_office]
    IN  IF r # None
        THEN [db |-> [d EXCEPT !.movies[The(r)] = row], ret |-> The(r)]
        ELSE [db |-> [d EXCEPT !.movies = Append(@, row)], ret |-> Len(d.movies) + 1]

upsert_movie(d, movie_unique_id, title, year, runtime, plot, box_office) ==
    LET r == FetchOneMovie(d, movie_unique_id, title)
    IN  IF r # None
        THEN [db |-> [d EXCEPT !.movies[The(r)] =
                        [@ EXCEPT !.year = year, !.runtime_minutes = runtime,
                                  !.plot = plot, !.box_office = box_office]],
              ret |-> The(r)]
        ELSE [db |-> [d EXCEPT !.movies = Append(@,
                        [movie_id |-> movie_unique_id, title |-> title,
                         year |-> year, runtime_minutes |-> runtime,
                         plot |-> plot, box_office |-> box_office])],
              ret |-> Len(d.movies) + 1]

\* SELECT id FROM <names table> WHERE name=:name, then INSERT when no row came
GetOrCreateAlwaysInsert(names, name) ==
    [rows |-> Append(names, name), ret |-> Len(names) + 1]

GetOrCreate(names, name) ==
    LET hits == {i \in 1..Len(names) : names[i] = name}
    IN  IF hits # {}
        THEN [rows |-> names, ret |-> SetMin(hits)]
        ELSE [rows |-> Append(names, name), ret |-> Len(names) + 1]

get_or_create_genre(d, name) ==
    LET r == GetOrCreate(d.genres, name)
    IN  [db |-> [d EXCEPT !.genres = r.rows], ret |-> r.ret]

get_or_create_director(d, name) ==
    LET r == GetOrCreate(d.directors, name)
    IN  [db |-> [d EXCEPT !.directors = r.rows], ret |-> r.ret]

\* what the environment may do to one statement: nothing, or the connection
\* to the store is lost
Faults == {"none", "OperationalError"}

\* the constraints of a join table, other than the uniqueness of the pair,
\* that an INSERT may violate; the driver reports each as an IntegrityError
ConstraintFaults == {"IntegrityError(FOREIGN KEY)", "IntegrityError(NOT NULL)"}

\* what may happen to the INSERT of a link_* call made with any ids
LinkFaults == Faults \cup ConstraintFaults

\* isinstance(e, IntegrityError); "IntegrityError" is the violation of the
\* uniqueness of the pair
IsIntegrityError(e) == e \in {"IntegrityError"} \cup ConstraintFaults

\* INSERT INTO <join table> VALUES (:m, :x) under the uniqueness of the pair
JoinInsert(rows, pair, fault) ==
    IF fault # "none" THEN [rows |-> rows, error |-> fault]
    ELSE IF \E i \in 1..Len(rows) : rows[i] = pair
         THEN [rows |-> rows, error |-> "IntegrityError"]
         ELSE [rows |-> Append(rows, pair), error |-> "none"]

LinkNoTry(rows, pair, fault) ==
    LET r == JoinInsert(rows, pair, fault)
    IN  [rows |-> r.rows, raised |-> r.error]

\* try: INSERT ... except IntegrityError: pass
Link(rows, pair, fault) ==
    LET r == JoinInsert(rows, pair, fault)
    IN  [rows |-> r.rows,
         raised |-> IF IsIntegrityError(r.error) THEN "none" ELSE r.error]

link_movie_genre(d, movie_db_id, genre_id, fault) ==
    LET r == Link(d.movie_genres, <<movie_db_id, genre_id>>, fault)
    IN  [db |-> [d EXCEPT !.movie_genres = r.rows], raised |-> r.raised]

link_movie_director(d, movie_db_id, director_id, fault) ==
    LET r == Link(d.movie_directors, <<movie_db_id, director_id>>, fault)
    IN  [db |-> [d EXCEPT !.movie_directors = r.rows], raised |-> r.raised]

\* the history record of a store operation applied to db
Op(op, args, ret, raised) ==
    [op |-> op, args |-> args, ret |-> ret, raised |-> raised, pre |-> db,
     prev |-> [op |-> last.op, args |-> last.args, ret |-> last.ret]]

NoteFirst(table, name, id) ==
    IF <<table, name>> \in DOMAIN firstId THEN firstId
    ELSE [k \in DOMAIN firstId \cup {<<table, name>>} |->
             IF k = <<table, name>> THEN id ELSE firstId[k]]

(***************************************************************************)
(* load_ratings                                                            *)
(***************************************************************************)
\* int(x) for a cell x of a numeric column (x in tenths): truncation
IntOfCell(x) == IF x >= 0 THEN x \div 10 ELSE 0 - ((0 - x) \div 10)

\* float(x) for a cell x of a numeric column: the same number (in tenths)
FloatOfCell(x) == x

\* {"u": int(row.userId), "m": int(row.movieId), "r": float(row.rating),
\*  "ts": int(row.timestamp)}
RatingParams(row) ==
    [user_id |-> IntOfCell(row.userId), movie_ml_id |-> IntOfCell(row.movieId),
     rating |-> FloatOfCell(row.rating), timestamp |-> IntOfCell(row.timestamp)]

\* the primary key of ratings
RatingsKey(r) == <<r.user_id, r.movie_ml_id>>

InsertOrIgnore(rows, r) ==
    IF \E i \in 1..Len(rows) : RatingsKey(rows[i]) = RatingsKey(r) THEN rows
    ELSE Append(rows, r)

\* INSERT OR REPLACE INTO ratings: the rows in conflict with the new row on
\* the primary key are deleted, then the new row is inserted
InsertOrReplace(rows, r) ==
    LET keep(x) == RatingsKey(x) # RatingsKey(r)
    IN  Append(SelectSeq(rows, keep), r)

\* one pass of the loop of load_ratings
load_rating_row(d, row) == [d EXCEPT !.ratings = InsertOrReplace(@, RatingParams(row))]

(***************************************************************************)
(* The pure parts of main                                                  *)
(***************************************************************************)
\* lines 140-148: the title and the year of "Title (Year)"
ParseTitle(title_full) ==
    IF ~EndsWith(title_full, ")") THEN [title |-> title_full, year |-> None]
    ELSE LET parts == RSplit1(title_full, "(")
         IN  IF Len(parts) < 2
             THEN [title |-> title_full, year |-> None]      \* IndexError
             ELSE LET y == PyInt(RStripChar(parts[2], ")"))
                  IN  IF y = None
                      THEN [title |-> title_full, year |-> None]  \* ValueError
                      ELSE [title |-> Strip(parts[1]), year |-> y]

SMin == <<"m", "i", "n">>
SNA == <<"N", "/", "A">>
SNoGenres == <<"(", "n", "o", " ", "g", "e", "n", "r", "e", "s", " ",
               "l", "i", "s", "t", "e", "d", ")">>

\* lines 154-159: the leading integer of a Runtime that contains "min"
ParseRuntime(rt) ==
    IF TruthyStr(rt) /\ Contains(The(rt), SMin)
    THEN PyInt(SplitWS(The(rt))[1])
    ELSE None

ExtractAnyResponse(omdb) ==
    [imdb_id |-> omdb.imdbID, runtime |-> ParseRuntime(omdb.Runtime),
     plot |-> omdb.Plot, box_office |-> omdb.BoxOffice,
     omdb_genres |-> omdb.Genre, director_field |-> omdb.Director]

\* lines 152-170: what main takes from the record
Extract(omdb) ==
    IF omdb.Response = Some(STrue)
    THEN [imdb_id |-> omdb.imdbID, runtime |-> ParseRuntime(omdb.Runtime),
          plot |-> omdb.Plot, box_office |-> omdb.BoxOffice,
          omdb_genres |-> omdb.Genre, director_field |-> omdb.Director]
    ELSE [imdb_id |-> None, runtime |-> None, plot |-> None, box_office |-> None,
          omdb_genres |-> None, director_field |-> None]

\* f"ML_{ml_id}"
MLKey(ml_id) == <<"M", "L", "_">> \o ml_id

\* movie_unique_id = imdb_id or f"ML_{ml_id}", with ml_id = str(row.movieId)
MovieUniqueId(imdb_id, movieId) ==
    IF TruthyStr(imdb_id) THEN The(imdb_id) ELSE MLKey(PyStr(movieId))

\* parse_genres(genre_str); None stands for None and for a NaN cell
parse_genres(genre_str) ==
    IF ~TruthyStr(genre_str) THEN <<>>
    ELSE IF Contains(The(genre_str), <<"|">>)
         THEN LET notSentinel(g) == g # SNoGenres
              IN  SelectSeq(StripNonEmpty(Split(The(genre_str), "|")), notSentinel)
         ELSE StripNonEmpty(Split(The(genre_str), ","))

CombinedGenresApiFirst(row_genres, omdb_genres) ==
    Dedupe((IF TruthyStr(omdb_genres) THEN parse_genres(omdb_genres) ELSE <<>>)
           \o parse_genres(row_genres))

\* lines 177-179
CombinedGenres(row_genres, omdb_genres) ==
    Dedupe(parse_genres(row_genres)
           \o (IF TruthyStr(omdb_genres) THEN parse_genres(omdb_genres) ELSE <<>>))

\* lines 185-186
DirectorNamesOf(director_field) ==
    IF TruthyStr(director_field) /\ The(director_field) # SNA
    THEN StripNonEmpty(Split(The(director_field), ","))
    ELSE <<>>

(***************************************************************************)
(* Initial values                                                          *)
(***************************************************************************)
\* the tables after ensure_schema on a new database file; scan is the order
\* in which the engine yields the rows of an unordered SELECT
EmptyDb(scan) == [movies |-> <<>>, genres |-> <<>>, directors |-> <<>>,
                  movie_genres |-> <<>>, movie_directors |-> <<>>, ratings |-> <<>>,
                  scan |-> scan]

NoOp == [op |-> "none", args |-> <<>>, ret |-> 0, raised |-> "none",
         pre |-> EmptyDb("rowid"),
         prev |-> [op |-> "none", args |-> <<>>, ret |-> 0]]

NoLocals == [title |-> <<>>, year |-> None, omdb |-> NoRecord, movie_db_id |-> 0,
             todo |-> <<>>]

FetchInit ==
    /\ cache = <<>>
    /\ fpc = "idle"
    /\ ftitle = <<>>
    /\ fyear = None
    /\ attempt = 0
    /\ waits = <<>>
    /\ fnet = 0
    /\ fret = NoRecord
    /\ apiGot = <<>>
    /\ fprior = FALSE
    /\ fhadEntry = FALSE
    /\ gaveUp = {}
    /\ calls = 0
    /\ run = 1

StoreInit ==
    /\ \E scan \in ScanOrders : db = EmptyDb(scan)
    /\ committed = db
    /\ last = NoOp
    /\ firstId = <<>>
    /\ nops = 0

MainInit ==
    /\ pc = "off"
    /\ movies_df = <<>>
    /\ ratings_df = <<>>
    /\ ri = 1
    /\ mi = 1
    /\ loc = NoLocals
    /\ trace = <<>>
    /\ ncommits = 0
    /\ runStart = db

(***************************************************************************)
(* SpecFetch: omdb_lookup called with any queries, over several runs of    *)
(* the process; the cache directory outlives a run.                        *)
(***************************************************************************)
MaxCalls == 3
MaxRuns == 2

Ta == <<"a">>
TaSlash == <<"a", "/">>
TaUnder == <<"a", "_">>
TaSep1 == <<"a", "_", "_", "1">>

\* the (title, year) arguments omdb_lookup is called with
Queries == {<<Ta, None>>, <<Ta, Some(0)>>, <<Ta, Some(1)>>, <<TaSep1, None>>,
            <<TaSlash, None>>, <<TaUnder, None>>}

FetchCall ==
    /\ fpc \in {"idle", "done"}
    /\ calls < MaxCalls
    /\ calls' = calls + 1
    /\ run' = run
    /\ \E q \in Queries : LookupEnter(q[1], q[2])
    /\ UNCHANGED <<svars, mvars>>

\* the process ends and a new one starts: the cache files stay
FetchNewRun ==
    /\ fpc = "done"
    /\ run < MaxRuns
    /\ run' = run + 1
    /\ fpc' = "idle"
    /\ UNCHANGED <<cache, ftitle, fyear, attempt, waits, fnet, fret, apiGot,
                   fprior, fhadEntry, gaveUp, calls>>
    /\ UNCHANGED <<svars, mvars>>

FetchNext ==
    \/ FetchCall
    \/ FetchNewRun
    \/ LookupCheck
    \/ LookupAttemptOk
    \/ LookupAttemptFail
    \/ LookupSleep
    \/ LookupGiveUp

InitFetch == FetchInit /\ StoreInit /\ MainInit

SpecFetch == InitFetch /\ [][FetchNext]_vars


(***************************************************************************)
(* Claims about omdb_lookup, checked under SpecFetch                       *)
(***************************************************************************)
InLookup == fpc \in {"check", "attempt", "except", "exhausted", "done"}

\* C1: once a call of omdb_lookup(title, year) has received a structured
\* response from the API, every later call with the same (title, year), in
\* the same run or a later one, makes no network call, does not wait and
\* returns that same record.
C1_HitAfterApiResponse ==
    (InLookup /\ fprior) =>
        /\ fnet = 0
        /\ waits = <<>>
        /\ fpc \in {"check", "done"}
        /\ fpc = "done" => fret = apiGot[<<ftitle, fyear>>]

\* C1 witness: in a later run a query that was answered by the API in the
\* first run is served with the record it received then.
C1_Witness ==
    /\ fpc = "done"
    /\ fprior
    /\ run = 2
    /\ ftitle = Ta /\ fyear = Some(1)
    /\ fret = FoundRecord1
    /\ fnet = 0

\* C2: on a cache miss omdb_lookup makes at most 4 API attempts; attempt
\* number a starts after exactly the waits 1, 2, ... 2^(a-1); the first
\* attempt with a structured response is the last attempt and its payload is
\* returned (so after 3 failures and a success the waits were 1, 2, 4).
C2_RetryBackoff ==
    /\ fnet <= 4
    /\ Len(waits) <= 4
    /\ \A i \in 1..Len(waits) : waits[i] = <<1, 2, 4, 8>>[i]
    /\ fpc = "attempt" => (attempt <= 3 /\ Len(waits) = attempt /\ fnet = attempt)
    /\ fpc = "except" => (Len(waits) = attempt /\ fnet = attempt + 1)
    /\ (fpc = "done" /\ fnet > 0 /\ Len(waits) < fnet) =>
          /\ fnet = Len(waits) + 1
          /\ fret \in Payloads
          /\ fret = apiGot[<<ftitle, fyear>>]

\* C2 witness: three failures, then a success at attempt 3.
C2_Witness ==
    /\ fpc = "done"
    /\ fnet = 4
    /\ waits = <<1, 2, 4>>
    /\ fret = FoundRecord1

\* C4: a structured response, also a not-found one, is in the cache under
\* the fetch's key when omdb_lookup returns it; a fetch whose key has a cache
\* entry makes no API call; a fetch that gives up after 4 failed attempts
\* leaves no entry for its key, and a fetch whose key has no entry calls the
\* API.
C4_ContentCachedTransportNot ==
    /\ (fpc = "done" /\ fret # FailureRecord) =>
          /\ CacheExists(cache, ftitle, fyear)
          /\ CacheRead(cache, ftitle, fyear) = fret
    /\ (InLookup /\ fhadEntry) => fnet = 0
    /\ (fpc = "done" /\ fret = FailureRecord) =>
          /\ fnet = 4
          /\ ~CacheExists(cache, ftitle, fyear)
    /\ (fpc = "done" /\ ~fhadEntry) => fnet >= 1
    /\ \A k \in DOMAIN cache : cache[k] \in Payloads

\* C4 witness: the key's first fetch gave up, its second fetch called the API
\* again and got a not-found response, and its third fetch is served that
\* response from the cache.
C4_Witness ==
    /\ fpc = "done"
    /\ calls = 3
    /\ CacheKey(ftitle, fyear) \in gaveUp
    /\ fhadEntry
    /\ fnet = 0
    /\ fret = NotFoundRecord

(***************************************************************************)
(* SpecMovies: upsert_movie called with any arguments, from an empty       *)
(* movies table.                                                           *)
(***************************************************************************)
Tt1 == <<"t", "t", "1">>

\* the arguments upsert_movie is called with
MovieIds == {Tt1, MLKey(PyStr(1)), MLKey(PyStr(2))}
MovieTitles == {Ta, TaSlash}
MovieDetails == {<<None, None, None, None>>,
                 <<Some(1), Some(90), Some(<<"p">>), None>>,
                 <<Some(1), Some(100), Some(<<"p">>), Some(<<"$", "1">>)>>}

StoreUpsertMovie ==
    \E mid \in MovieIds, title \in MovieTitles, det \in MovieDetails :
        LET r == upsert_movie(db, mid, title, det[1], det[2], det[3], det[4])
        IN  /\ db' = r.db
            /\ last' = Op("upsert_movie", <<mid, title, det[1], det[2], det[3], det[4]>>,
                          r.ret, "none")
            /\ UNCHANGED <<committed, firstId, nops>>
            /\ UNCHANGED <<fvars, mvars>>

MoviesNext == StoreUpsertMovie

InitStore == FetchInit /\ StoreInit /\ MainInit

SpecMovies == InitStore /\ [][MoviesNext]_vars

(***************************************************************************)
(* SpecDims: get_or_create_genre, get_or_create_director, link_movie_genre *)
(* and link_movie_director called in any order with any arguments.         *)
(***************************************************************************)
MaxOps == 4

GenreNames == {<<"A">>, <<"C">>}
DirectorNames == {<<"X">>, <<"Y">>}
JoinPairs == {<<1, 1>>, <<1, 2>>, <<2, 1>>}

\* an operation of SpecDims leaves a history record without the previous one
DimOp(op, args, ret, raised) == [Op(op, args, ret, raised) EXCEPT !.prev = NoOp.prev]

StoreGetOrCreateGenre ==
    /\ nops < MaxOps
    /\ \E name \in GenreNames :
        LET r == get_or_create_genre(db, name)
        IN  /\ db' = r.db
            /\ last' = DimOp("get_or_create_genre", <<name>>, r.ret, "none")
            /\ firstId' = NoteFirst("genres", name, r.ret)
    /\ nops' = nops + 1
    /\ UNCHANGED <<committed, fvars, mvars>>

StoreGetOrCreateDirector ==
    /\ nops < MaxOps
    /\ \E name \in DirectorNames :
        LET r == get_or_create_director(db, name)
        IN  /\ db' = r.db
            /\ last' = DimOp("get_or_create_director", <<name>>, r.ret, "none")
            /\ firstId' = NoteFirst("directors", name, r.ret)
    /\ nops' = nops + 1
    /\ UNCHANGED <<committed, fvars, mvars>>

StoreLinkMovieGenre ==
    /\ nops < MaxOps
    /\ \E pair \in JoinPairs, fault \in LinkFaults :
        LET r == link_movie_genre(db, pair[1], pair[2], fault)
        IN  /\ db' = r.db
            /\ last' = DimOp("link_movie_genre", <<pair[1], pair[2], fault>>, 0, r.raised)
    /\ nops' = nops + 1
    /\ UNCHANGED <<committed, firstId, fvars, mvars>>

StoreLinkMovieDirector ==
    /\ nops < MaxOps
    /\ \E pair \in JoinPairs, fault \in LinkFaults :
        LET r == link_movie_director(db, pair[1], pair[2], fault)
        IN  /\ db' = r.db
            /\ last' = DimOp("link_movie_director", <<pair[1], pair[2], fault>>, 0, r.raised)
    /\ nops' = nops + 1
    /\ UNCHANGED <<committed, firstId, fvars, mvars>>

DimsNext ==
    \/ StoreGetOrCreateGenre
    \/ StoreGetOrCreateDirector
    \/ StoreLinkMovieGenre
    \/ StoreLinkMovieDirector

SpecDims == InitStore /\ [][DimsNext]_vars

(***************************************************************************)
(* Claims about upsert_movie, checked under SpecMovies                     *)
(***************************************************************************)
\* the last two operations were upsert_movie calls with the same external
\* identity and the same title, and the runtime changed between them
TwoUpsertsSameIdentity ==
    /\ last.op = "upsert_movie"
    /\ last.prev.op = "upsert_movie"
    /\ last.args[1] = last.prev.args[1]
    /\ last.args[2] = last.prev.args[2]
    /\ last.args[4] # last.prev.args[4]

RowsOfIdentity(mid) == {i \in 1..Len(db.movies) : db.movies[i].movie_id = mid}

HasDetails(row, args) ==
    /\ row.year = args[3]
    /\ row.runtime_minutes = args[4]
    /\ row.plot = args[5]
    /\ row.box_office = args[6]

\* C5 as stated: after two upsert_movie calls with the same external identity
\* and title and a changed runtime there is exactly one movies row of that
\* identity, both calls returned the same row id, and that row's year,
\* runtime, plot and box office are the arguments of the second call.
C5_AsStated ==
    TwoUpsertsSameIdentity =>
        /\ Cardinality(RowsOfIdentity(last.args[1])) = 1
        /\ last.ret = last.prev.ret
        /\ \A i \in RowsOfIdentity(last.args[1]) : HasDetails(db.movies[i], last.args)

\* C5 amended: after two such calls the second call has inserted no row, both
\* calls returned the same row id, at most one movies row has that identity,
\* and the returned row, which has that identity or that title, holds the
\* year, runtime, plot and box office of the second call.
C5_UpsertTwice ==
    TwoUpsertsSameIdentity =>
        /\ Len(db.movies) = Len(last.pre.movies)
        /\ last.ret = last.prev.ret
        /\ Cardinality(RowsOfIdentity(last.args[1])) <= 1
        /\ last.ret \in 1..Len(db.movies)
        /\ \/ db.movies[last.ret].movie_id = last.args[1]
           \/ db.movies[last.ret].title = last.args[2]
        /\ HasDetails(db.movies[last.ret], last.args)

\* C5 witness: the second of two such calls changed the runtime of a row that
\* is stored under another identity and was matched by its title.
C5_Witness ==
    /\ TwoUpsertsSameIdentity
    /\ last.prev.args[4] = Some(90)
    /\ last.args[4] = Some(100)
    /\ db.movies[last.ret].runtime_minutes = Some(100)
    /\ db.movies[last.ret].movie_id # last.args[1]

\* C6: from an empty movies table, no two movies rows share an external
\* identifier or a title; an upsert_movie call whose identity or title matches
\* an existing row inserts nothing, returns a matched row, sets that row's
\* year, runtime, plot and box office and leaves every other row, also another
\* matched row, as it was.
C6_MovieIdentity ==
    /\ \A i, j \in 1..Len(db.movies) :
          i # j => /\ db.movies[i].movie_id # db.movies[j].movie_id
                   /\ db.movies[i].title # db.movies[j].title
    /\ last.op = "upsert_movie" =>
          LET pre == last.pre.movies
              matched == {i \in 1..Len(pre) : \/ pre[i].movie_id = last.args[1]
                                              \/ pre[i].title = last.args[2]}
          IN  matched # {} =>
                /\ Len(db.movies) = Len(pre)
                /\ last.ret \in matched
                /\ \A i \in 1..Len(pre) : i # last.ret => db.movies[i] = pre[i]
                /\ db.movies[last.ret].movie_id = pre[last.ret].movie_id
                /\ db.movies[last.ret].title = pre[last.ret].title
                /\ HasDetails(db.movies[last.ret], last.args)

\* C6 witness: a call whose identity matches one row and whose title matches
\* another row.
C6_Witness ==
    /\ last.op = "upsert_movie"
    /\ \E i, j \in 1..Len(last.pre.movies) :
          /\ i # j
          /\ last.pre.movies[i].movie_id = last.args[1]
          /\ last.pre.movies[j].title = last.args[2]
          /\ last.pre.movies[j] # db.movies[j]

(***************************************************************************)
(* Claims about the genre and director tables, checked under SpecDims      *)
(***************************************************************************)
NoDuplicates(rows) == \A i, j \in 1..Len(rows) : i # j => rows[i] # rows[j]

Occurrences(rows, x) == Cardinality({i \in 1..Len(rows) : rows[i] = x})

IsPrefix(s, t) == Len(s) <= Len(t) /\ \A i \in 1..Len(s) : s[i] = t[i]

\* C7: a link_movie_genre / link_movie_director call that the store serves
\* returns without raising and leaves exactly one join row of its pair, however
\* often the pair was linked before; the join tables never hold a pair twice.
C7_JoinIdempotent ==
    /\ NoDuplicates(db.movie_genres)
    /\ NoDuplicates(db.movie_directors)
    /\ (last.op = "link_movie_genre" /\ last.args[3] = "none") =>
          /\ last.raised = "none"
          /\ Occurrences(db.movie_genres, <<last.args[1], last.args[2]>>) = 1
    /\ (last.op = "link_movie_director" /\ last.args[3] = "none") =>
          /\ last.raised = "none"
          /\ Occurrences(db.movie_directors, <<last.args[1], last.args[2]>>) = 1

\* C7 witness: a pair that is linked already is linked again.
C7_Witness ==
    /\ last.op = "link_movie_genre"
    /\ last.args[3] = "none"
    /\ Occurrences(last.pre.movie_genres, <<last.args[1], last.args[2]>>) = 1
    /\ Len(db.movie_genres) = 2

\* C9: the genres and the directors table hold exactly one row per name that
\* was requested; every get_or_create call returns the id of the row of its
\* name, the same id as the first call for that name; a call for an existing
\* name inserts nothing; no existing row is ever changed or removed.
C9_GetOrCreate ==
    /\ NoDuplicates(db.genres)
    /\ NoDuplicates(db.directors)
    /\ IsPrefix(last.pre.genres, db.genres)
    /\ IsPrefix(last.pre.directors, db.directors)
    /\ {db.genres[i] : i \in 1..Len(db.genres)}
          = {k[2] : k \in {q \in DOMAIN firstId : q[1] = "genres"}}
    /\ {db.directors[i] : i \in 1..Len(db.directors)}
          = {k[2] : k \in {q \in DOMAIN firstId : q[1] = "directors"}}
    /\ last.op = "get_or_create_genre" =>
          /\ last.ret = firstId[<<"genres", last.args[1]>>]
          /\ db.genres[last.ret] = last.args[1]
          /\ Occurrences(last.pre.genres, last.args[1]) > 0 => db.genres = last.pre.genres
    /\ last.op = "get_or_create_director" =>
          /\ last.ret = firstId[<<"directors", last.args[1]>>]
          /\ db.directors[last.ret] = last.args[1]
          /\ Occurrences(last.pre.directors, last.args[1]) > 0
                => db.directors = last.pre.directors

\* C9 witness: the second genre created is requested again and its id 2 is
\* returned with nothing inserted.
C9_Witness ==
    /\ last.op = "get_or_create_genre"
    /\ last.ret = 2
    /\ Occurrences(last.pre.genres, last.args[1]) = 1
    /\ Len(db.genres) = 2
    /\ Len(db.directors) = 1

(***************************************************************************)
(* main: one action per statement of the run, the loops one pass at a      *)
(* time. A statement on the connection that raises ends the run: the with  *)
(* block closes the connection, which rolls the open transaction back.     *)
(***************************************************************************)
\* rows of movies.csv: movieId, title, genres
RowA1 == [movieId |-> 1, title |-> <<"a", " ", "(", "1", ")">>,
          genres |-> Some(<<"A", "|", "C">>)]
RowA == [movieId |-> 2, title |-> <<"a">>, genres |-> Some(SNoGenres)]
RowBad == [movieId |-> 3, title |-> <<"a", "/", " ", "(", "x", ")">>, genres |-> None]

\* the catalogs the runs read
Catalogs == {<<RowA1, RowA>>, <<RowBad>>}

\* rows of ratings.csv: userId, movieId, rating, timestamp (in tenths)
Rating1 == [userId |-> 10, movieId |-> 100, rating |-> 30, timestamp |-> 1000]
Rating2 == [userId |-> 10, movieId |-> 100, rating |-> 45, timestamp |-> 2000]
Rating3 == [userId |-> 25, movieId |-> 100, rating |-> 45, timestamp |-> 2005]

\* the ratings files the runs read
RatingsInputs == {<<>>, <<Rating1, Rating2>>}

AutocommitStatement(c, d) == d

\* the committed tables after a statement on the connection that left the
\* tables d: create_engine(future=True) commits nothing by itself
AfterStatement(c, d) == c

\* the exception leaves main through the with block
AbortRun(cause) ==
    /\ pc' = "aborted"
    /\ db' = committed
    /\ loc' = NoLocals
    /\ trace' = Append(trace, <<"abort", cause>>)
    /\ UNCHANGED <<committed, last, firstId, nops, fvars>>
    /\ UNCHANGED <<movies_df, ratings_df, ri, mi, ncommits, runStart>>

\* lines 125-131: the run begins; the cache directory and the committed
\* tables are what earlier runs left
MainStart ==
    /\ pc \in {"off", "done", "aborted"}
    /\ pc = "off" \/ run < MaxRuns
    /\ run' = IF pc = "off" THEN run ELSE run + 1
    /\ \E cat \in Catalogs, rat \in RatingsInputs :
          /\ movies_df' = cat
          /\ ratings_df' = rat
    /\ pc' = "ratings"
    /\ ri' = 1
    /\ mi' = 1
    /\ loc' = NoLocals
    /\ trace' = <<>>
    /\ ncommits' = 0
    /\ db' = committed
    /\ runStart' = committed
    /\ last' = NoOp
    /\ UNCHANGED <<committed, firstId, nops>>
    /\ UNCHANGED <<cache, fpc, ftitle, fyear, attempt, waits, fnet, fret, apiGot,
                   fprior, fhadEntry, gaveUp, calls>>

\* lines 118-122: one pass of the loop of load_ratings
MainLoadRating ==
    /\ pc = "ratings"
    /\ ri <= Len(ratings_df)
    /\ \E fault \in Faults :
          IF fault # "none" THEN AbortRun("store")
          ELSE /\ db' = load_rating_row(db, ratings_df[ri])
               /\ last' = DimOp("load_rating", <<ratings_df[ri]>>, 0, "none")
               /\ ri' = ri + 1
               /\ trace' = Append(trace, <<"rating", ri>>)
               /\ committed' = AfterStatement(committed, db')
               /\ UNCHANGED <<firstId, nops, fvars>>
               /\ UNCHANGED <<pc, movies_df, ratings_df, mi, loc, ncommits, runStart>>

load_ratings_returns_early(i, df) == TRUE

\* line 118: the loop of load_ratings ends, and load_ratings returns, when
\* every row of ratings_df has been passed
load_ratings_returned(i, df) == i > Len(df)

\* lines 136-148: the next movie row, its title and year; or the loop ends
MainParseTitle ==
    /\ \/ pc = "ratings" /\ load_ratings_returned(ri, ratings_df)
       \/ pc = "row"
    /\ IF mi <= Len(movies_df)
       THEN LET p == ParseTitle(movies_df[mi].title)
            IN  /\ loc' = [NoLocals EXCEPT !.title = p.title, !.year = p.year]
                /\ pc' = "lookup"
                /\ trace' = Append(trace, <<"parse", mi>>)
       ELSE /\ pc' = "commit"
            /\ UNCHANGED <<loc, trace>>
    /\ UNCHANGED <<svars, fvars>>
    /\ UNCHANGED <<movies_df, ratings_df, ri, mi, ncommits, runStart>>

\* line 151: omdb_lookup(title, year) is called
MainCallLookup ==
    /\ pc = "lookup"
    /\ LookupEnter(loc.title, loc.year)
    /\ pc' = "fetching"
    /\ trace' = Append(trace, <<"fetch", mi>>)
    /\ UNCHANGED <<calls, run, svars>>
    /\ UNCHANGED <<movies_df, ratings_df, ri, mi, loc, ncommits, runStart>>

\* line 151: omdb_lookup has returned and omdb is bound; an exception that
\* leaves omdb_lookup ends the run
MainLookupReturned ==
    /\ pc = "fetching"
    /\ fpc \in {"done", "raised"}
    /\ IF fpc = "raised"
       THEN /\ AbortRun("omdb_lookup")
       ELSE /\ loc' = [loc EXCEPT !.omdb = fret]
            /\ pc' = "upsert"
            /\ fpc' = "idle"
            /\ attempt' = 0
            /\ waits' = <<>>
            /\ fnet' = 0
            /\ fret' = NoRecord
            /\ UNCHANGED <<cache, ftitle, fyear, apiGot, fprior, fhadEntry, gaveUp,
                           calls, run>>
            /\ UNCHANGED <<svars, movies_df, ratings_df, ri, mi, trace, ncommits,
                           runStart>>

\* lines 152-179: the fields of the record, the movie row, the genre list
MainUpsert ==
    /\ pc = "upsert"
    /\ \E fault \in Faults :
          IF fault # "none" THEN AbortRun("store")
          ELSE LET x == Extract(loc.omdb)
                   mid == MovieUniqueId(x.imdb_id, movies_df[mi].movieId)
                   r == upsert_movie(db, mid, loc.title, loc.year, x.runtime, x.plot,
                                     x.box_office)
               IN  /\ db' = r.db
                   /\ last' = Op("upsert_movie",
                                 <<mid, loc.title, loc.year, x.runtime, x.plot,
                                   x.box_office>>, r.ret, "none")
                   /\ loc' = [loc EXCEPT !.movie_db_id = r.ret,
                                         !.todo = CombinedGenres(movies_df[mi].genres,
                                                                 x.omdb_genres)]
                   /\ pc' = "genres"
                   /\ trace' = Append(trace, <<"upsert", mi>>)
                   /\ committed' = AfterStatement(committed, db')
                   /\ UNCHANGED <<firstId, nops, fvars>>
                   /\ UNCHANGED <<movies_df, ratings_df, ri, mi, ncommits, runStart>>

\* lines 180-182: one pass of the genre loop
MainLinkGenre ==
    /\ pc = "genres"
    /\ loc.todo # <<>>
    /\ \E f1 \in Faults, f2 \in Faults :
          LET g == get_or_create_genre(db, Head(loc.todo))
              l == link_movie_genre(g.db, loc.movie_db_id, g.ret, f2)
          IN  IF f1 # "none" \/ l.raised # "none" THEN AbortRun("store")
              ELSE /\ db' = l.db
                   /\ last' = DimOp("link_movie_genre", <<loc.movie_db_id, g.ret, f2>>,
                                    0, l.raised)
                   /\ loc' = [loc EXCEPT !.todo = Tail(@)]
                   /\ trace' = Append(trace, <<"genre", mi>>)
                   /\ committed' = AfterStatement(committed, db')
                   /\ UNCHANGED <<firstId, nops, fvars>>
                   /\ UNCHANGED <<pc, movies_df, ratings_df, ri, mi, ncommits, runStart>>

\* lines 184-186: the genre loop has ended; the director names
MainDirectors ==
    /\ pc = "genres"
    /\ loc.todo = <<>>
    /\ loc' = [loc EXCEPT !.todo = DirectorNamesOf(Extract(loc.omdb).director_field)]
    /\ pc' = "directors"
    /\ UNCHANGED <<svars, fvars>>
    /\ UNCHANGED <<movies_df, ratings_df, ri, mi, trace, ncommits, runStart>>

\* lines 187-189: one pass of the director loop
MainLinkDirector ==
    /\ pc = "directors"
    /\ loc.todo # <<>>
    /\ \E f1 \in Faults, f2 \in Faults :
          LET g == get_or_create_director(db, Head(loc.todo))
              l == link_movie_director(g.db, loc.movie_db_id, g.ret, f2)
          IN  IF f1 # "none" \/ l.raised # "none" THEN AbortRun("store")
              ELSE /\ db' = l.db
                   /\ last' = DimOp("link_movie_director",
                                    <<loc.movie_db_id, g.ret, f2>>, 0, l.raised)
                   /\ loc' = [loc EXCEPT !.todo = Tail(@)]
                   /\ trace' = Append(trace, <<"director", mi>>)
                   /\ committed' = AfterStatement(committed, db')
                   /\ UNCHANGED <<firstId, nops, fvars>>
                   /\ UNCHANGED <<pc, movies_df, ratings_df, ri, mi, ncommits, runStart>>

\* line 136: the loop body has ended; on to the next row
MainRowDone ==
    /\ pc = "directors"
    /\ loc.todo = <<>>
    /\ mi' = mi + 1
    /\ pc' = "row"
    /\ loc' = NoLocals
    /\ UNCHANGED <<svars, fvars>>
    /\ UNCHANGED <<movies_df, ratings_df, ri, trace, ncommits, runStart>>

\* line 191: conn.commit()
MainCommit ==
    /\ pc = "commit"
    /\ \E fault \in Faults :
          IF fault # "none" THEN AbortRun("store")
          ELSE /\ committed' = db
               /\ ncommits' = ncommits + 1
               /\ pc' = "done"
               /\ trace' = Append(trace, <<"commit">>)
               /\ UNCHANGED <<db, last, firstId, nops, fvars>>
               /\ UNCHANGED <<movies_df, ratings_df, ri, mi, loc, runStart>>

Next ==
    \/ MainStart
    \/ MainLoadRating
    \/ MainParseTitle
    \/ MainCallLookup
    \/ LookupCheck
    \/ LookupAttemptOk
    \/ LookupAttemptFail
    \/ LookupSleep
    \/ LookupGiveUp
    \/ MainLookupReturned
    \/ MainUpsert
    \/ MainLinkGenre
    \/ MainDirectors
    \/ MainLinkDirector
    \/ MainRowDone
    \/ MainCommit

Init == FetchInit /\ StoreInit /\ MainInit

Spec == Init /\ [][Next]_vars

(***************************************************************************)
(* SpecRatings: load_ratings applied to any ratings file, one load after   *)
(* another on the same connection.                                         *)
(***************************************************************************)
MaxLoads == 2
MaxRatingRows == 3

RatingRows == {Rating1, Rating2, Rating3}

RECURSIVE SeqsUpTo(_, _)
SeqsUpTo(S, n) ==
    IF n = 0 THEN {<<>>}
    ELSE LET shorter == SeqsUpTo(S, n - 1)
         IN  shorter \cup {Append(q, x) : q \in shorter, x \in S}

\* line 133: load_ratings(conn, ratings_df) is called
RatingsStart ==
    /\ \/ pc \in {"off", "aborted"}
       \/ pc = "ratings" /\ ri > Len(ratings_df)
    /\ nops < MaxLoads
    /\ nops' = nops + 1
    /\ \E rat \in SeqsUpTo(RatingRows, MaxRatingRows) : ratings_df' = rat
    /\ pc' = "ratings"
    /\ ri' = 1
    /\ runStart' = db
    /\ trace' = <<>>
    /\ UNCHANGED <<db, committed, last, firstId, fvars>>
    /\ UNCHANGED <<movies_df, mi, loc, ncommits>>

RatingsNext ==
    \/ RatingsStart
    \/ MainLoadRating

SpecRatings == InitStore /\ [][RatingsNext]_vars

\* load_ratings has returned
LoadDone == pc = "ratings" /\ ri > Len(ratings_df)

\* the (user, movie) pair of row i of the ratings file
InputPair(i) == <<IntOfCell(ratings_df[i].userId), IntOfCell(ratings_df[i].movieId)>>

StoredPair(r) == <<r.user_id, r.movie_ml_id>>

\* C8: the ratings table never holds two rows of one (user, movie) pair; when
\* load_ratings has processed its input, every pair of the input has one row,
\* with the rating and timestamp of the last input row of that pair, and the
\* rows of all other pairs are those the table held before the load.
C8_RatingsLastWriteWins ==
    /\ \A i, j \in 1..Len(db.ratings) :
          i # j => StoredPair(db.ratings[i]) # StoredPair(db.ratings[j])
    /\ LoadDone =>
          /\ \A i \in 1..Len(ratings_df) :
                LET same == {j \in 1..Len(ratings_df) : InputPair(j) = InputPair(i)}
                    lastRow == ratings_df[CHOOSE j \in same : \A k \in same : k <= j]
                IN  \E n \in 1..Len(db.ratings) :
                       /\ StoredPair(db.ratings[n]) = InputPair(i)
                       /\ db.ratings[n].rating = lastRow.rating
                       /\ db.ratings[n].timestamp * 10 <= lastRow.timestamp
                       /\ lastRow.timestamp < db.ratings[n].timestamp * 10 + 10
          /\ LET inputPairs == {InputPair(i) : i \in 1..Len(ratings_df)}
                 others(rows) == {rows[n] : n \in {k \in 1..Len(rows) :
                                        StoredPair(rows[k]) \notin inputPairs}}
             IN  others(db.ratings) = others(runStart.ratings)

\* C8 witness: (user 1, movie 10, rating 3.0, ts 100) then (user 1, movie 10,
\* rating 4.5, ts 200) were loaded into a table that held a row of user 2, and
\* the table holds that row and the second row.
C8_Witness ==
    /\ LoadDone
    /\ ratings_df = <<Rating1, Rating2>>
    /\ runStart.ratings = <<[user_id |-> 2, movie_ml_id |-> 10, rating |-> 45,
                             timestamp |-> 200]>>
    /\ db.ratings = <<[user_id |-> 2, movie_ml_id |-> 10, rating |-> 45,
                       timestamp |-> 200],
                      [user_id |-> 1, movie_ml_id |-> 10, rating |-> 45,
                       timestamp |-> 200]>>

(***************************************************************************)
(* Claims about main, checked under Spec                                   *)
(***************************************************************************)
InTrace(e) == \E i \in 1..Len(trace) : trace[i] = e

LookupRunning == fpc \in {"check", "attempt", "except", "exhausted"}

\* how far an activation of omdb_lookup has come; 10 when it has returned
LookupProgress(p, a) ==
    CASE p = "check" -> 0
      [] p = "attempt" -> 1 + 2 * a
      [] p = "except" -> 2 + 2 * a
      [] p = "exhausted" -> 9
      [] p = "done" -> 10
      [] OTHER -> 11

\* C3: whatever fails in its attempts, omdb_lookup never raises and always
\* returns: while it runs it can take a step, every step brings it closer to
\* its return, and when all 4 attempts have failed it returns a record whose
\* Response is "False"; main then goes on to upsert the movie row with that
\* record, and no run is ended by omdb_lookup.
C3_LookupNeverFatal ==
    /\ [](/\ fpc # "raised"
          /\ ~InTrace(<<"abort", "omdb_lookup">>)
          /\ LookupRunning =>
                ENABLED (LookupCheck \/ LookupAttemptOk \/ LookupAttemptFail
                            \/ LookupSleep \/ LookupGiveUp)
          /\ (fpc = "done" /\ Len(waits) = 4) =>
                (fnet = 4 /\ fret.Response = Some(SFalse)))
    /\ [][LookupRunning =>
             /\ LookupProgress(fpc', attempt') <= 10
             /\ LookupProgress(fpc', attempt') > LookupProgress(fpc, attempt)]_vars
    /\ [][(pc = "fetching" /\ fpc = "done") =>
             /\ pc' = "upsert"
             /\ loc'.omdb = fret
             /\ db' = db]_vars
    /\ [][(pc = "upsert" /\ loc.omdb.Response = Some(SFalse)) =>
             \/ pc' = "genres" /\ last'.op = "upsert_movie"
             \/ InTrace(<<"abort", "store">>)']_vars

\* C3 witness: all 4 attempts for the second movie row failed, and the row
\* has been upserted under its synthetic identity.
C3_Witness ==
    /\ pc = "genres"
    /\ mi = 2
    /\ gaveUp # {}
    /\ loc.omdb = FailureRecord
    /\ last.op = "upsert_movie"
    /\ last.args[1] = <<"M", "L", "_", "2">>

\* C10: a run commits at most once, and only when every rating row and every
\* movie row has been processed; until then, and for good when the run is
\* ended by an error, the committed tables (movies, genres, directors, join
\* tables, ratings) are those from before the run.
C10_SingleCommit ==
    /\ ncommits <= 1
    /\ pc = "done" =>
          /\ ncommits = 1
          /\ committed = db
          /\ ri = Len(ratings_df) + 1
          /\ mi = Len(movies_df) + 1
          /\ \A m \in 1..Len(movies_df) : InTrace(<<"upsert", m>>)
          /\ trace[Len(trace)] = <<"commit">>
    /\ pc \notin {"off", "done"} =>
          /\ ncommits = 0
          /\ committed = runStart
    /\ pc = "aborted" => db = runStart

\* C10 witness: the second run loaded ratings, upserted a movie row and was
\* ended by an error while linking; the committed tables are those of the
\* first run, which hold movies and no ratings.
C10_Witness ==
    /\ pc = "aborted"
    /\ run = 2
    /\ InTrace(<<"rating", 2>>)
    /\ InTrace(<<"upsert", 1>>)
    /\ committed.movies # <<>>
    /\ committed.ratings = <<>>
    /\ committed = runStart

(***************************************************************************)
(* Claims about the genre lists, checked under Spec                        *)
(***************************************************************************)
\* C11: no genre row is ever created for the sentinel "(no genres listed)",
\* also when the catalog genre string is the sentinel alone, and no movie is
\* linked to such a row.
C11_SentinelFiltered ==
    /\ \A i \in 1..Len(db.genres) : db.genres[i] # SNoGenres
    /\ \A i \in 1..Len(db.movie_genres) :
          db.genres[db.movie_genres[i][2]] # SNoGenres

(***************************************************************************)
(* SpecRows: the loop body of main from the return of omdb_lookup on, for  *)
(* any catalog row and any record, one row after another on one database.  *)
(***************************************************************************)
MaxRows == 2

\* the genres cells of movies.csv (None is an empty cell)
CatalogGenres == {None,
                  Some(<<"A", "|", "D">>),
                  Some(<<" ", "C", " ", "|", "|", "A", "|", "C">>),
                  Some(<<"A", ",", "D">>),
                  Some(SNoGenres),
                  Some(<<"A", "|">> \o SNoGenres)}

\* a record whose Response is "True" and that has no imdbID; its Genre uses
\* the pipe
FoundNoId == [NoRecord EXCEPT !.Response = Some(STrue),
                              !.Runtime = Some(<<"m", "i", "n">>),
                              !.Plot = Some(<<"q">>),
                              !.Genre = Some(<<"D", "|", "C">>),
                              !.Director = Some(<<" ", "Y", ",", ",">>)]

\* a record whose Response is "False" and that has the other keys
FalseWithFields == [FoundRecord1 EXCEPT !.Response = Some(SFalse)]

\* a record without Response
NoResponse == [FoundRecord1 EXCEPT !.Response = None]

\* the records omdb_lookup returns in SpecRows
RowRecords == {FoundRecord1, FoundRecord2, FoundNoId, NotFoundRecord, FailureRecord,
               FalseWithFields, NoResponse}

\* lines 136-151: the next row is read, its title parsed, and omdb_lookup has
\* returned rec
RowsBegin ==
    /\ pc \in {"off", "row", "aborted"}
    /\ nops < MaxRows
    /\ nops' = nops + 1
    /\ \E movieId \in {1, 2}, genres \in CatalogGenres, rec \in RowRecords :
          LET row == [movieId |-> movieId, title |-> Ta, genres |-> genres]
              p == ParseTitle(row.title)
          IN  /\ movies_df' = <<row>>
              /\ loc' = [NoLocals EXCEPT !.title = p.title, !.year = p.year,
                                         !.omdb = rec]
    /\ mi' = 1
    /\ pc' = "upsert"
    /\ trace' = <<>>
    /\ UNCHANGED <<db, committed, last, firstId, fvars>>
    /\ UNCHANGED <<ratings_df, ri, ncommits, runStart>>

RowsNext ==
    \/ RowsBegin
    \/ MainUpsert
    \/ MainLinkGenre
    \/ MainDirectors
    \/ MainLinkDirector
    \/ MainRowDone

SpecRows == InitStore /\ [][RowsNext]_vars

(***************************************************************************)
(* Claims about one row of the catalog, checked under SpecRows             *)
(***************************************************************************)
ElemsOf(s) == {s[i] : i \in 1..Len(s)}

FirstPos(s, x) == SetMin({i \in 1..Len(s) : s[i] = x})

\* the names parsed from the genres cell of the current row
RowCatalogNames == parse_genres(movies_df[mi].genres)

\* the names parsed from the Genre of the current record, when main reads it
RowApiNames ==
    IF loc.omdb.Response = Some(STrue) /\ TruthyStr(loc.omdb.Genre)
    THEN parse_genres(loc.omdb.Genre)
    ELSE <<>>

\* list is the merge of the name lists cat and api
IsMergeOf(list, cat, api) ==
    /\ \A k \in 1..Len(list) : list[k] # <<>> /\ Strip(list[k]) = list[k]
    /\ ElemsOf(list) = ElemsOf(cat) \cup ElemsOf(api)
    /\ NoDuplicates(list)
    /\ \A i, j \in 1..Len(list) :
          i < j => /\ FirstPos(cat \o api, list[i]) < FirstPos(cat \o api, list[j])
                   /\ list[j] \in ElemsOf(cat) => list[i] \in ElemsOf(cat)

\* the names of the genres movie m is linked to
LinkedGenres(d, m) ==
    {d.genres[d.movie_genres[i][2]] :
        i \in {k \in 1..Len(d.movie_genres) : d.movie_genres[k][1] = m}}

\* main has just computed combined_genres for the current row
GenreListComputed == pc = "genres" /\ trace[Len(trace)] = <<"upsert", mi>>

\* C12 as stated: the combined genre list of a row is the merge of the names
\* parsed from the two sources (trimmed, non-empty, each once, in order of
\* first occurrence, catalog names before API-only names), and after the
\* genre loop the movie is linked to exactly the genres of that list.
C12_AsStated ==
    /\ GenreListComputed => IsMergeOf(loc.todo, RowCatalogNames, RowApiNames)
    /\ pc = "directors" =>
          LinkedGenres(db, loc.movie_db_id)
             = ElemsOf(CombinedGenres(movies_df[mi].genres,
                                      Extract(loc.omdb).omdb_genres))

\* C12 amended: the combined genre list of a row is the merge of the names
\* parsed from the two sources; after the genre loop the movie is linked to
\* every genre of that list; a pass of the loop links the movie to the next
\* name of the list and removes no link, so the movie is also still linked to
\* the genres it was linked to before the row.
C12_GenreMerge ==
    /\ [](/\ GenreListComputed => IsMergeOf(loc.todo, RowCatalogNames, RowApiNames)
          /\ pc = "directors" =>
                ElemsOf(CombinedGenres(movies_df[mi].genres,
                                       Extract(loc.omdb).omdb_genres))
                   \subseteq LinkedGenres(db, loc.movie_db_id))
    /\ [][(pc = "genres" /\ pc' = "genres") =>
             /\ loc.todo # <<>>
             /\ loc'.todo = Tail(loc.todo)
             /\ LinkedGenres(db', loc.movie_db_id)
                   = LinkedGenres(db, loc.movie_db_id) \cup {Head(loc.todo)}
             /\ IsPrefix(db.movie_genres, db'.movie_genres)]_vars

\* C12 witness: the catalog genres "A|D" and the API genres "C, A" gave the
\* list A, D, C, the genre rows were created in that order and the movie is
\* linked to the three of them.
C12_Witness ==
    /\ pc = "directors"
    /\ movies_df[mi].genres = Some(<<"A", "|", "D">>)
    /\ loc.omdb = FoundRecord1
    /\ db.genres = <<<<"A">>, <<"D">>, <<"C">>>>
    /\ LinkedGenres(db, loc.movie_db_id) = {<<"A">>, <<"D">>, <<"C">>}

(***************************************************************************)
(* SpecTitles: the title parser of main (lines 138-148) applied to any     *)
(* title cell.                                                             *)
(***************************************************************************)
MaxTitleLen == 5

TitleChars == {"a", " ", "(", ")", "1", "_"}

\* main is about to read its first movie row, whose title is any string
InitTitles ==
    /\ FetchInit
    /\ StoreInit
    /\ pc = "row"
    /\ \E t \in SeqsUpTo(TitleChars, MaxTitleLen) :
          movies_df = <<[movieId |-> 1, title |-> t, genres |-> None]>>
    /\ ratings_df = <<>>
    /\ ri = 1
    /\ mi = 1
    /\ loc = NoLocals
    /\ trace = <<>>
    /\ ncommits = 0
    /\ runStart = db

TitlesNext == MainParseTitle

SpecTitles == InitTitles /\ [][TitlesNext]_vars

\* the position of the last "(" of s, 0 when there is none
LastOpen(s) ==
    LET at == {i \in 1..Len(s) : s[i] = "("}
    IN  IF at = {} THEN 0 ELSE CHOOSE i \in at : \A j \in at : j <= i

\* the text between the last "(" of s and the final character of s
Parenthetical(s) == SubSeq(s, LastOpen(s) + 1, Len(s) - 1)

\* C13: when the title cell ends with ")" and the text between its last "("
\* and that final ")" is a valid integer, the parsed title is the trimmed text
\* left of that "(" and the year is that integer; in every other case the
\* title is the whole cell and the year is absent.
C13_TitleParse ==
    pc = "lookup" =>
        LET s == movies_df[mi].title
        IN  IF /\ EndsWith(s, ")")
               /\ LastOpen(s) > 0
               /\ PyInt(Parenthetical(s)) # None
            THEN /\ loc.title = Strip(SubSeq(s, 1, LastOpen(s) - 1))
                 /\ loc.year = PyInt(Parenthetical(s))
            ELSE /\ loc.title = s
                 /\ loc.year = None

(***************************************************************************)
(* Claims about the errors of link_*, checked under SpecDims               *)
(***************************************************************************)
\* C14: link_movie_genre and link_movie_director return normally when the
\* insert succeeded or was rejected because the pair exists, and in no other
\* case: every other constraint violation and every connectivity error of the
\* insert is raised to the caller.
C14_OnlyDuplicateSwallowed ==
    last.op \in {"link_movie_genre", "link_movie_director"} =>
        /\ last.args[3] = "none" => last.raised = "none"
        /\ last.args[3] # "none" => last.raised = last.args[3]

(***************************************************************************)
(* SpecRerun: main run again on the same input files after a run that      *)
(* committed; the cache directory and the database are those the earlier   *)
(* runs left.                                                              *)
(***************************************************************************)
RowB == [movieId |-> 4, title |-> <<"b">>, genres |-> None]

\* the input files of every run
RerunCatalog == <<RowA, RowA1, RowB>>
RerunRatings == <<Rating1, Rating2>>

\* lines 125-131: the first run begins, or the next one after a run that has
\* committed
RerunStart ==
    /\ pc \in {"off", "done"}
    /\ pc = "off" \/ run < MaxRuns
    /\ run' = IF pc = "off" THEN run ELSE run + 1
    /\ movies_df' = RerunCatalog
    /\ ratings_df' = RerunRatings
    /\ pc' = "ratings"
    /\ ri' = 1
    /\ mi' = 1
    /\ loc' = NoLocals
    /\ trace' = <<>>
    /\ ncommits' = 0
    /\ db' = committed
    /\ runStart' = committed
    /\ last' = NoOp
    /\ UNCHANGED <<committed, firstId, nops>>
    /\ UNCHANGED <<cache, fpc, ftitle, fyear, attempt, waits, fnet, fret, apiGot,
                   fprior, fhadEntry, gaveUp, calls>>

RerunNext ==
    \/ RerunStart
    \/ MainLoadRating
    \/ MainParseTitle
    \/ MainCallLookup
    \/ LookupCheck
    \/ LookupAttemptOk
    \/ LookupAttemptFail
    \/ LookupSleep
    \/ LookupGiveUp
    \/ MainLookupReturned
    \/ MainUpsert
    \/ MainLinkGenre
    \/ MainDirectors
    \/ MainLinkDirector
    \/ MainRowDone
    \/ MainCommit

SpecRerun == Init /\ [][RerunNext]_vars

\* C19: when a run has committed and the run before it, on the same inputs,
\* had committed too, and no metadata fetch has ever given up (so every key was
\* in the cache when the later run began and each of its fetches returned the
\* record of the earlier run), the committed tables are those the earlier run
\* left.
C19_RerunIdempotent ==
    (pc = "done" /\ run >= 2 /\ gaveUp = {}) => committed = runStart

(***************************************************************************)
(* Claims about the order of the steps of a run, checked under Spec        *)
(***************************************************************************)
MovieSteps == {"parse", "fetch", "upsert", "genre", "director"}

\* the place of a step in the order of a run: the ratings, then row by row
\* parse, fetch, upsert, genre links, director links, then the end of the run
StepRow(e) == CASE e[1] = "rating" -> 0
                [] e[1] \in MovieSteps -> e[2]
                [] OTHER -> Len(movies_df) + 1

StepPhase(e) == CASE e[1] = "rating" -> e[2]
                  [] e[1] = "parse" -> 1
                  [] e[1] = "fetch" -> 2
                  [] e[1] = "upsert" -> 3
                  [] e[1] = "genre" -> 4
                  [] e[1] = "director" -> 5
                  [] OTHER -> 6

StepBefore(e, f) ==
    \/ StepRow(e) < StepRow(f)
    \/ /\ StepRow(e) = StepRow(f)
       /\ \/ StepPhase(e) < StepPhase(f)
          \/ e = f /\ e[1] \in {"genre", "director"}

\* C15: in a run every rating row is written, in file order, before the
\* first movie row is parsed; the movie rows are taken one at a time in file
\* order; each row is parsed, then fetched, then upserted, then linked to its
\* genres, then to its directors; the commit comes after the last row and is
\* the last step.
C15_RunOrder ==
    /\ \A i, j \in 1..Len(trace) : i < j => StepBefore(trace[i], trace[j])
    /\ \A i \in 1..Len(trace) :
          /\ trace[i][1] = "rating" => trace[i][2] = i
          /\ trace[i][1] \in MovieSteps =>
                /\ trace[i][2] \in 1..Len(movies_df)
                /\ \A r \in 1..Len(ratings_df) : InTrace(<<"rating", r>>)
          /\ trace[i][1] = "parse" =>
                (trace[i][2] > 1 => InTrace(<<"upsert", trace[i][2] - 1>>))
          /\ trace[i][1] = "fetch" => InTrace(<<"parse", trace[i][2]>>)
          /\ trace[i][1] = "upsert" => InTrace(<<"fetch", trace[i][2]>>)
          /\ trace[i][1] \in {"genre", "director"} => InTrace(<<"upsert", trace[i][2]>>)
          /\ trace[i][1] = "commit" =>
                /\ i = Len(trace)
                /\ \A r \in 1..Len(ratings_df) : InTrace(<<"rating", r>>)
                /\ \A m \in 1..Len(movies_df) : InTrace(<<"upsert", m>>)
    /\ pc = "done" => trace[Len(trace)] = <<"commit">>

\* C15 witness: a run with two rating rows and two movie rows, with genre and
\* director links, has committed.
C15_Witness ==
    /\ pc = "done"
    /\ Len(ratings_df) = 2
    /\ Len(movies_df) = 2
    /\ InTrace(<<"director", 1>>)
    /\ InTrace(<<"genre", 2>>)
    /\ trace[1] = <<"rating", 1>>

(***************************************************************************)
(* Claims about the frame of upsert_movie, checked under SpecMovies        *)
(***************************************************************************)
\* C16: an upsert_movie call that finds a row changes the tables only in the
\* year, runtime, plot and box office of the row it returns: no row is added,
\* every row keeps its id, its external identifier and its title (a row
\* created under ML_<id> keeps that identifier when a later call with the same
\* title carries an API identifier), and every other row is as it was.
C16_UpsertFrame ==
    last.op = "upsert_movie" =>
        LET pre == last.pre
        IN  MatchingMovies(pre.movies, last.args[1], last.args[2]) # {} =>
              /\ last.ret \in 1..Len(pre.movies)
              /\ db = [pre EXCEPT !.movies[last.ret] =
                         [movie_id |-> pre.movies[last.ret].movie_id,
                          title |-> pre.movies[last.ret].title,
                          year |-> last.args[3],
                          runtime_minutes |-> last.args[4],
                          plot |-> last.args[5],
                          box_office |-> last.args[6]]]

\* C16 witness: a row created under ML_1 was matched by its title in a call
\* that carried tt1 and another runtime; it still has the identifier ML_1.
C16_Witness ==
    /\ last.op = "upsert_movie"
    /\ last.args[1] = Tt1
    /\ last.ret = 1
    /\ Len(last.pre.movies) = 2
    /\ last.pre.movies[1].movie_id = MLKey(PyStr(1))
    /\ last.pre.movies[1].runtime_minutes # last.args[4]
    /\ db.movies[1].movie_id = MLKey(PyStr(1))
    /\ db.movies[1].runtime_minutes = last.args[4]
    /\ Len(db.movies) = 2

\* the record of the current row says Response "True"
RecordFound == loc.omdb.Response = Some(STrue)

\* C17: the external identity passed to upsert_movie is the imdbID of the
\* record when its Response is "True" and it has an imdbID, and "ML_" followed
\* by the movieId of the row otherwise; when the Response is not "True", the
\* runtime, plot and box office passed are absent, the genre list is that of
\* the catalog genres alone, and the row creates no director and no director
\* link.
C17_IdentitySelection ==
    /\ [](/\ GenreListComputed =>
                /\ last.op = "upsert_movie"
                /\ last.args[1] =
                      IF RecordFound /\ loc.omdb.imdbID # None
                      THEN The(loc.omdb.imdbID)
                      ELSE <<"M", "L", "_">> \o PyStr(movies_df[mi].movieId)
                /\ ~RecordFound =>
                      /\ last.args[4] = None
                      /\ last.args[5] = None
                      /\ last.args[6] = None
                      /\ IsMergeOf(loc.todo, RowCatalogNames, <<>>)
          /\ (pc = "directors" /\ ~RecordFound) =>
                /\ loc.todo = <<>>
                /\ ~InTrace(<<"director", mi>>))
    /\ [][(pc \in {"upsert", "genres", "directors"} /\ ~RecordFound) =>
             \/ pc' = "aborted"
             \/ /\ db'.directors = db.directors
                /\ db'.movie_directors = db.movie_directors]_vars

\* C17 witness: the record has Response "False" and an imdbID, a plot, genres
\* and directors; the row was stored under ML_1 without a plot, and its
\* director loop has nothing to do.
C17_Witness ==
    /\ pc = "directors"
    /\ loc.omdb = FalseWithFields
    /\ movies_df[mi].movieId = 1
    /\ loc.todo = <<>>
    /\ db.movies[loc.movie_db_id].movie_id = <<"M", "L", "_", "1">>
    /\ db.movies[loc.movie_db_id].plot = None
    /\ db.directors = <<>>

(***************************************************************************)
(* More claims about omdb_lookup, checked under SpecFetch                  *)
(***************************************************************************)
\* C18: a call of omdb_lookup(title, year) that is served from the cache
\* returns a record that the API gave for that same title and year.
C18_NoKeyCollision ==
    (fpc = "done" /\ fnet = 0) =>
        /\ <<ftitle, fyear>> \in DOMAIN apiGot
        /\ fret = apiGot[<<ftitle, fyear>>]

RECURSIVE SumSeq(_)
SumSeq(s) == IF s = <<>> THEN 0 ELSE Head(s) + SumSeq(Tail(s))

\* C20: omdb_lookup has waited after every attempt that failed, the last one
\* too: when the 4 attempts have failed the waits were 1, 2, 4 and 8 (15 in
\* all), and what follows the wait of 8 is the return of the failure record,
\* with no further attempt.
C20_WaitAfterLastFailure ==
    /\ [](/\ fpc \in {"attempt", "exhausted"} => Len(waits) = fnet
          /\ fpc = "exhausted" => (fnet = 4 /\ waits = <<1, 2, 4, 8>>)
          /\ (fpc = "done" /\ fret = FailureRecord) =>
                /\ fnet = 4
                /\ waits = <<1, 2, 4, 8>>
                /\ SumSeq(waits) = 15)
    /\ [][(fpc = "except" /\ attempt = 3) =>
             (fpc' = "exhausted" /\ waits' = Append(waits, 8))]_vars
    /\ [][fpc = "exhausted" =>
             /\ fpc' = "done"
             /\ fret' = FailureRecord
             /\ fnet' = fnet
             /\ waits' = waits]_vars

\* C20 witness: the failure record was returned after 4 attempts and the
\* waits 1, 2, 4, 8.
C20_Witness ==
    /\ fpc = "done"
    /\ fret = FailureRecord
    /\ fnet = 4
    /\ waits = <<1, 2, 4, 8>>

=============================================================================
